---- MODULE Spec2Model ----
(***************************************************************************)
(* Model of the GAME Orca evaluator client: one run of run_evaluator       *)
(* (evaluator_RestAPI.py) through load -> /formats negotiation -> POST     *)
(* /predict -> decode -> save -> metrics, with the transport retry loop    *)
(* and the codec of evaluator_content_handler.py.                          *)
(*                                                                         *)
(* Python strings that the code lower-cases or searches with `in` are      *)
(* sequences of one-character strings, so that str.lower() and substring   *)
(* search are computed, not assumed.  Python None / an unbound local is    *)
(* the empty tuple <<>>, a bound value x is <<x>>.                         *)
(***************************************************************************)
EXTENDS Integers, Sequences, FiniteSets, TLC

VARIABLES
    config,               \* config.py: MAX_RETRIES, RETRY_INTERVAL, REQUEST_FORMAT, RESPONSE_FORMAT
    evaluator_input,      \* the file at EVALUATOR_INPUT_PATH and the sequences seqstr fetches for it
    pc,                   \* position of the single thread of control
    total_sequences,      \* run_evaluator local: len(data_dict["sequences"])
    http_method,          \* _make_request_with_retry argument: "get" or "post"
    attempt,              \* _make_request_with_retry loop variable
    sleep_left,           \* remaining iterations of the one-second sleep loop
    calls,                \* HTTP calls issued so far, per method
    sleeps,               \* one-second sleeps performed so far, per method
    supported,            \* negotiate_formats local: <<response of GET /formats>> or <<>>
    req_fmt,              \* run_evaluator local (negotiated request MIME type)
    resp_fmt,             \* run_evaluator local, None before negotiation
    post_request,         \* the request handed to the POST /predict call, <<>> before
    response,             \* run_evaluator local `response`; <<>> while unbound
    http_err,             \* the response carried by the HTTPError caught at line 52
    response_payload,     \* run_evaluator local, <<>> is None
    is_success_response,  \* run_evaluator local
    warnings,             \* warnings printed so far
    log,                  \* milestones printed / collaborators called, in order
    artifact,             \* the prediction file written to output_dir, <<>> if none
    metrics_calls,        \* arguments of each calculate_and_save_metrics call
    exc,                  \* class of the exception that reached __main__, "" if none
    exit_status,          \* <<>> while running, <<code>> after sys.exit(code)
    stderr_tag,           \* category printed by the __main__ handler
    codec                 \* a payload taken through get_predictions' packing and
                          \* deserialize_response's unpacking, byte by byte

\* the state of one run of run_evaluator
run_vars == <<config, evaluator_input, pc, total_sequences, http_method, attempt, sleep_left, calls,
              sleeps, supported, req_fmt, resp_fmt, post_request, response, http_err,
              response_payload, is_success_response, warnings, log, artifact,
              metrics_calls, exc, exit_status, stderr_tag>>

vars == <<run_vars, codec>>

(***************************************************************************)
(* Bounds of the model.                                                    *)
(***************************************************************************)
MaxRetriesBound == 3      \* MAX_RETRIES ranges over -1..MaxRetriesBound
MaxIntervalBound == 2     \* RETRY_INTERVAL ranges over 0..MaxIntervalBound
MaxSeqs == 2              \* at most this many sequence coordinates in the input

(***************************************************************************)
(* Strings.                                                                *)
(***************************************************************************)
UpperAlphabet == <<"A","B","C","D","E","F","G","H","I","J","K","L","M",
                   "N","O","P","Q","R","S","T","U","V","W","X","Y","Z">>
LowerAlphabet == <<"a","b","c","d","e","f","g","h","i","j","k","l","m",
                   "n","o","p","q","r","s","t","u","v","w","x","y","z">>

\* str.lower() on one character
LowerOf ==
    [u \in {UpperAlphabet[i] : i \in DOMAIN UpperAlphabet} |->
        LowerAlphabet[CHOOSE i \in DOMAIN UpperAlphabet : UpperAlphabet[i] = u]]

LowerChar(c) == IF c \in DOMAIN LowerOf THEN LowerOf[c] ELSE c

\* str.lower()
Lower(s) == [i \in DOMAIN s |-> LowerChar(s[i])]

\* Python `s in t` for two strings: s occurs in t as a contiguous substring
StrIn(s, t) ==
    \E i \in 0..(Len(t) - Len(s)) : SubSeq(t, i + 1, i + Len(s)) = s

\* Python `x in lst` for a list of strings
ListHas(lst, x) == \E i \in DOMAIN lst : lst[i] = x

APPLICATION == <<"a","p","p","l","i","c","a","t","i","o","n","/">>
JSON == APPLICATION \o <<"j","s","o","n">>
MSGPACK == APPLICATION \o <<"m","s","g","p","a","c","k">>
MSGPACK_NUMPY == MSGPACK \o <<"-","n","u","m","p","y">>
\* other spellings a configuration file or a server can use
JSON_UPPER == <<"A","P","P","L","I","C","A","T","I","O","N","/","J","S","O","N">>
MSGPACK_MIXED == <<"A","p","p","l","i","c","a","t","i","o","n","/","M","s","g","P","a","c","k">>
MSGPACK_NUMPY_MIXED == MSGPACK_MIXED \o <<"-","N","u","m","P","y">>
JSON_CHARSET == JSON \o <<";"," ","c","h","a","r","s","e","t","=","u","t","f","-","8">>
MSGPACK_NUMPY_CHARSET == MSGPACK_NUMPY \o <<";"," ","c","h","a","r","s","e","t","=","b","i","n","a","r","y">>
TEXT_HTML == <<"t","e","x","t","/","h","t","m","l">>

\* Python None for a string-valued local, and a bound string
NoneStr == [is_none |-> TRUE, s |-> <<>>]
Str(s) == [is_none |-> FALSE, s |-> s]
\* truth value of `x` for x a string or None
Truthy(x) == ~x.is_none /\ x.s # <<>>

(***************************************************************************)
(* Configuration (config.py).  The two format preferences are written in  *)
(* any spelling and lower-cased by config.py itself (lines 29 and 32).     *)
(***************************************************************************)
ConfiguredFormats == {JSON, JSON_UPPER, MSGPACK, MSGPACK_MIXED, MSGPACK_NUMPY, MSGPACK_NUMPY_MIXED}

\* the configuration as shipped (config.py lines 28 and 31)
ShippedFormats == <<MSGPACK, MSGPACK_NUMPY>>

\* The retry loop and the format handling share no state, so the retry
\* settings are varied under the shipped formats and the formats under a
\* single attempt.
Configs ==
    { [MAX_RETRIES |-> m, RETRY_INTERVAL |-> i,
       REQUEST_FORMAT |-> Lower(rq), RESPONSE_FORMAT |-> Lower(rs)] :
        m \in (0 - 1)..MaxRetriesBound, i \in 0..MaxIntervalBound,
        rq \in {ShippedFormats[1]}, rs \in {ShippedFormats[2]} }
    \cup
    { [MAX_RETRIES |-> 1, RETRY_INTERVAL |-> 0,
       REQUEST_FORMAT |-> Lower(rq), RESPONSE_FORMAT |-> Lower(rs)] :
        rq \in ConfiguredFormats, rs \in ConfiguredFormats }

(***************************************************************************)
(* Input data (data_loader.py).                                            *)
(***************************************************************************)
seq_len == 1000000

\* lengths of the sequences seqstr returns, one per coordinate of the input
FetchedLengths ==
    UNION { [1..n -> {seq_len, seq_len - 1}] : n \in 1..MaxSeqs }

\* the file at EVALUATOR_INPUT_PATH and what seqstr answers for it
InputFiles ==
    { [exists |-> e, has_sequence_coordinates |-> h, fetched |-> f] :
        e \in BOOLEAN, h \in BOOLEAN, f \in FetchedLengths }

\* lines 157-158 left out: the fetched sequences are taken as they come
load_and_validate_data_NoLengthCheck(input) ==
    IF ~input.exists THEN "FileNotFoundError"
    ELSE IF ~input.has_sequence_coordinates THEN "ValueError"
    ELSE ""

\* load_and_validate_data: the exception it raises ("" if none)
load_and_validate_data(input) ==
    IF ~input.exists THEN "FileNotFoundError"
    ELSE IF ~input.has_sequence_coordinates THEN "ValueError"
    ELSE IF \E k \in DOMAIN input.fetched : input.fetched[k] # seq_len THEN "ValueError"
    ELSE ""

(***************************************************************************)
(* Payloads: the Python objects a response body decodes to.                *)
(***************************************************************************)
NoError == [key |-> "", status |-> 0, body |-> "", body_len |-> 0]

\* JSON null / msgpack nil decodes to None
PyNone == [kind |-> "None", predictor_name |-> "", prediction_tasks |-> <<>>,
           ndarray |-> FALSE, error |-> NoError]

\* a success payload; prediction_tasks[i] is the number of predictions of task i,
\* ndarray says whether the predictions are numpy arrays
SuccessPayload(tasks, nd) ==
    [kind |-> "dict", predictor_name |-> "Orca", prediction_tasks |-> tasks,
     ndarray |-> nd, error |-> NoError]

\* an error payload of the predictor: predictor_name and an error list
ErrorPayload ==
    [kind |-> "dict", predictor_name |-> "Orca", prediction_tasks |-> <<>>,
     ndarray |-> FALSE,
     error |-> [key |-> "error", status |-> 0, body |-> "predictor error", body_len |-> 0]]

\* a body that is valid JSON but not an object
ListPayload == [kind |-> "list", predictor_name |-> "", prediction_tasks |-> <<>>,
                ndarray |-> FALSE, error |-> NoError]

TruncateAt == 500

Min(a, b) == IF a < b THEN a ELSE b

\* run_evaluator lines 64-72: placeholder for an undecodable error body
ErrorResponsePlaceholder(resp) ==
    [kind |-> "dict", predictor_name |-> "UnknownPredictor_ErrorResponse",
     prediction_tasks |-> <<>>, ndarray |-> FALSE,
     error |-> [key |-> "server_error", status |-> resp.status_code,
                body |-> resp.body.text, body_len |-> Min(resp.body.text_len, TruncateAt)]]

\* run_evaluator lines 81-86: placeholder when no payload was produced
NoResponsePlaceholder ==
    [kind |-> "dict", predictor_name |-> "UnknownPredictor_NoResponse",
     prediction_tasks |-> <<>>, ndarray |-> FALSE,
     error |-> [key |-> "evaluator_error", status |-> 0,
                body |-> "No response payload could be processed after request.",
                body_len |-> 0]]

HasPredictionTasks(p) == p.prediction_tasks # <<>>

(***************************************************************************)
(* What the predictor can answer.                                          *)
(***************************************************************************)
\* prediction counts of the tasks of a success payload
TaskLists == { <<n>> : n \in 1..MaxSeqs } \cup { <<1, MaxSeqs>> }

\* a body: the encoding of its bytes, the object they encode, response.text
Body(enc, value, text, len) == [enc |-> enc, value |-> value, text |-> text, text_len |-> len]

GarbageBodies == { Body("garbage", PyNone, "<html>", 6),
                   Body("garbage", PyNone, "<html>...", TruncateAt + 1) }

ErrorBodies ==
    { Body(e, ErrorPayload, "error", 5) : e \in {"json", "msgpack"} } \cup GarbageBodies

PredictBodies ==
    { Body("json", SuccessPayload(t, FALSE), "predictions", 11) : t \in TaskLists }
    \cup { Body("msgpack", SuccessPayload(<<MaxSeqs>>, nd), "predictions", 11) : nd \in BOOLEAN }
    \cup { Body(e, PyNone, "null", 4) : e \in {"json", "msgpack"} }
    \cup { Body("json", ListPayload, "[]", 2) }
    \cup ErrorBodies

\* the Content-Type header of a response: absent, or a value in any spelling
NoContentType == [present |-> FALSE, value |-> <<>>]
ContentTypes ==
    { NoContentType } \cup
    { [present |-> TRUE, value |-> v] :
        v \in {JSON, JSON_CHARSET, MSGPACK, MSGPACK_NUMPY, MSGPACK_NUMPY_MIXED,
               MSGPACK_NUMPY_CHARSET, TEXT_HTML} }

OkStatus == {200}
ErrorStatus == {404, 500}

PredictResponses ==
    { [status_code |-> s, content_type |-> h, body |-> b] :
        s \in OkStatus, h \in ContentTypes, b \in PredictBodies }

ErrorResponses ==
    { [status_code |-> s, content_type |-> h, body |-> b] :
        s \in ErrorStatus, h \in ContentTypes, b \in ErrorBodies }

\* lists a predictor can declare at /formats
FormatLists ==
    { <<>>, <<JSON>>, <<MSGPACK_MIXED>>, <<MSGPACK, MSGPACK_NUMPY>>,
      <<JSON_UPPER, MSGPACK_NUMPY_MIXED>> }

RequestKey == "predictor_supported_request_formats"
ResponseKey == "predictor_supported_response_formats"

\* the body of a 2xx answer of GET /formats: unparsable, or a JSON object with
\* some of the two keys
FormatsBodies ==
    { [parsable |-> FALSE, keys |-> {},
       predictor_supported_request_formats |-> <<>>,
       predictor_supported_response_formats |-> <<>>] }
    \cup
    { [parsable |-> TRUE, keys |-> k,
       predictor_supported_request_formats |-> IF RequestKey \in k THEN rq ELSE <<>>,
       predictor_supported_response_formats |-> IF ResponseKey \in k THEN rs ELSE <<>>] :
        k \in SUBSET {RequestKey, ResponseKey}, rq \in FormatLists, rs \in FormatLists }

FormatsResponses ==
    { [status_code |-> s, content_type |-> [present |-> TRUE, value |-> JSON], body |-> b] :
        s \in OkStatus, b \in FormatsBodies }

(***************************************************************************)
(* Format Negotiator: negotiate_formats, lines 63-96, as functions of the  *)
(* parsed /formats body and the configuration.                             *)
(***************************************************************************)
\* supported.get(key, [])
DictGetList(body, key) == IF key \in body.keys THEN body[key] ELSE <<>>

\* lines 66-67 without .lower(): the entries are compared as declared
LowerAll_NotLowered(lst) == lst

\* [f.lower() for f in ...]
LowerAll(lst) == [i \in DOMAIN lst |-> Lower(lst[i])]

\* lines 70-73: append application/json when it is not in the list
WithJson(lst) == IF ListHas(lst, JSON) THEN lst ELSE Append(lst, JSON)

\* pred_request_fmts / pred_response_fmts as printed at lines 74-75
pred_fmts(body, key) == WithJson(LowerAll(DictGetList(body, key)))

\* lines 78-81 without the membership test: the preference is always used
SelectFormat_Unchecked(preferred, fmts) == preferred

\* lines 78-81 and 86-90: the format selected for one direction
SelectFormat(preferred, fmts) == IF ListHas(fmts, preferred) THEN preferred ELSE JSON

\* lines 82-83 and 91-92: whether the fallback warning is printed
FallbackWarning(preferred, fmts) == ~ListHas(fmts, preferred) /\ preferred # JSON

\* a printed warning
Warning(kind, fmt, other, task, n) ==
    [kind |-> kind, fmt |-> fmt, other |-> other, task |-> task, n_preds |-> n]

\* the warnings negotiate_formats prints for a parsed body
NegotiationWarnings(body, cfg) ==
    (IF FallbackWarning(cfg.REQUEST_FORMAT, pred_fmts(body, RequestKey))
     THEN { Warning("REQUEST_FORMAT not supported", cfg.REQUEST_FORMAT, <<>>, 0, 0) }
     ELSE {})
    \cup
    (IF FallbackWarning(cfg.RESPONSE_FORMAT, pred_fmts(body, ResponseKey))
     THEN { Warning("RESPONSE_FORMAT not supported", cfg.RESPONSE_FORMAT, <<>>, 0, 0) }
     ELSE {})

(***************************************************************************)
(* Codec.                                                                  *)
(***************************************************************************)
\* get_predictions lines 109-112: the encoding of the posted bytes
SerializeRequest(negotiated_req_fmt) ==
    IF negotiated_req_fmt = MSGPACK THEN "msgpack" ELSE "json"

\* response.headers.get("Content-Type", "").lower()
response_fmt_actual(resp) ==
    Lower(IF resp.content_type.present THEN resp.content_type.value ELSE <<>>)

\* deserialize_response line 131: the format-mismatch warning is printed
MismatchWarning(resp, negotiated_resp_fmt) ==
    /\ response_fmt_actual(resp) # <<>>
    /\ Truthy(negotiated_resp_fmt)
    /\ ~StrIn(negotiated_resp_fmt.s, response_fmt_actual(resp))

\* line 141 comparing the whole header value instead of searching it
Decoder_ExactMatch(resp) ==
    IF response_fmt_actual(resp) \in {MSGPACK, MSGPACK_NUMPY} THEN "msgpack" ELSE "json"

\* deserialize_response lines 127, 141-147, 152-155: the decoder applied;
\* "msgpack" is msgpack.unpackb as patched by msgpack_numpy (lines 12-13)
Decoder(resp) ==
    IF response_fmt_actual(resp) # <<>>
       /\ (StrIn(MSGPACK, response_fmt_actual(resp))
           \/ StrIn(MSGPACK_NUMPY, response_fmt_actual(resp)))
    THEN "msgpack"
    ELSE "json"

\* a decoder that returns whatever it finds instead of raising
DecodeFails_Never(resp) == FALSE

\* a decoder accepts exactly the bytes of its own encoding; anything else is
\* json.JSONDecodeError / an msgpack unpack error, re-raised as ValueError
DecodeFails(resp) == resp.body.enc # Decoder(resp)

\* deserialize_response: what it returns or that it raises ValueError
deserialize_response(resp, negotiated_resp_fmt) ==
    [raised |-> DecodeFails(resp),
     value |-> IF DecodeFails(resp) THEN PyNone ELSE resp.body.value,
     decoder |-> Decoder(resp),
     warned |-> MismatchWarning(resp, negotiated_resp_fmt)]

DecodeWarnings(resp, negotiated_resp_fmt) ==
    IF MismatchWarning(resp, negotiated_resp_fmt)
    THEN { Warning("format mismatch", response_fmt_actual(resp), negotiated_resp_fmt.s, 0, 0) }
    ELSE {}

\* line 103 written with < : only missing predictions are reported
CountWarnings_FewerOnly(payload, total) ==
    { Warning("prediction count", <<>>, <<>>, i, payload.prediction_tasks[i]) :
        i \in { j \in DOMAIN payload.prediction_tasks : payload.prediction_tasks[j] < total } }

\* run_evaluator lines 96-107: one warning per task whose count differs
CountWarnings(payload, total) ==
    { Warning("prediction count", <<>>, <<>>, i, payload.prediction_tasks[i]) :
        i \in { j \in DOMAIN payload.prediction_tasks : payload.prediction_tasks[j] # total } }

\* evaluator_metrics_calculator line 50
is_msgpack_numpy(recv_fmt) == recv_fmt \notin {MSGPACK, JSON}

\* calculate_and_save_metrics reads prediction_tasks[0].predictions[key] for
\* every submitted key (line 89): KeyError when the payload has no task or
\* the first task lacks a prediction
MetricsRaises(payload, total) ==
    \/ ~HasPredictionTasks(payload)
    \/ payload.prediction_tasks[1] < total

(***************************************************************************)
(* The msgpack wire format, as msgpack.packb(obj, use_bin_type=True) of    *)
(* get_predictions line 110 writes it and msgpack.unpackb(content,         *)
(* raw=False) of deserialize_response line 143 reads it, for the values    *)
(* JSON can represent.  A byte is a number 0..255.  A Python int is        *)
(* arbitrary precision: a sign and the big-endian bytes of its magnitude   *)
(* without leading zeros (0 is the empty sequence).  A float is the eight  *)
(* bytes of its IEEE-754 double.  A str is its sequence of code points.    *)
(* A dict is the sequence key1, value1, key2, value2, ... in insertion     *)
(* order.                                                                  *)
(***************************************************************************)
JValue(t, b, n, s, items) == [t |-> t, b |-> b, n |-> n, s |-> s, items |-> items]
JNull == JValue("NoneType", FALSE, <<>>, <<>>, <<>>)
JBool(b) == JValue("bool", b, <<>>, <<>>, <<>>)
JInt(negative, magnitude) == JValue("int", negative, magnitude, <<>>, <<>>)
JFloat(bits) == JValue("float", FALSE, bits, <<>>, <<>>)
JStr(s) == JValue("str", FALSE, <<>>, s, <<>>)
JBytes(s) == JValue("bytes", FALSE, <<>>, s, <<>>)
JList(items) == JValue("list", FALSE, <<>>, <<>>, items)
JDict(items) == JValue("dict", FALSE, <<>>, <<>>, items)

Zeros(k) == [i \in 1..k |-> 0]
PadTo(bs, w) == Zeros(w - Len(bs)) \o bs

RECURSIVE StripZeros(_)
StripZeros(bs) ==
    IF bs # <<>> /\ bs[1] = 0 THEN StripZeros(Tail(bs)) ELSE bs

Complement(bs) == [i \in DOMAIN bs |-> 255 - bs[i]]

\* bs + 1 on a big-endian byte string of fixed width
RECURSIVE AddOne(_)
AddOne(bs) ==
    IF bs = <<>> THEN <<>>
    ELSE IF bs[Len(bs)] = 255
         THEN Append(AddOne(SubSeq(bs, 1, Len(bs) - 1)), 0)
         ELSE Append(SubSeq(bs, 1, Len(bs) - 1), bs[Len(bs)] + 1)

\* two's complement of the magnitude mag in w bytes, and back
TwosComplement(mag, w) == AddOne(Complement(PadTo(mag, w)))

\* -mag >= -2^(8w-1)
FitsSigned(mag, w) ==
    \/ Len(mag) < w
    \/ Len(mag) = w /\ (mag[1] < 128 \/ (mag[1] = 128 /\ \A i \in 2..w : mag[i] = 0))

Packed(bytes) == [exc |-> "", bytes |-> bytes]
PackError(e) == [exc |-> e, bytes |-> <<>>]

\* Packer: the shortest integer format that holds the value; none holds a
\* value outside -2^63 .. 2^64-1
PackInt(v) ==
    IF ~v.b
    THEN IF Len(v.n) = 0 THEN Packed(<<0>>)
         ELSE IF Len(v.n) = 1 /\ v.n[1] < 128 THEN Packed(v.n)
         ELSE IF Len(v.n) = 1 THEN Packed(<<204>> \o v.n)
         ELSE IF Len(v.n) = 2 THEN Packed(<<205>> \o v.n)
         ELSE IF Len(v.n) <= 4 THEN Packed(<<206>> \o PadTo(v.n, 4))
         ELSE IF Len(v.n) <= 8 THEN Packed(<<207>> \o PadTo(v.n, 8))
         ELSE PackError("OverflowError")
    ELSE IF Len(v.n) = 1 /\ v.n[1] <= 32 THEN Packed(<<256 - v.n[1]>>)
         ELSE IF FitsSigned(v.n, 1) THEN Packed(<<208>> \o TwosComplement(v.n, 1))
         ELSE IF FitsSigned(v.n, 2) THEN Packed(<<209>> \o TwosComplement(v.n, 2))
         ELSE IF FitsSigned(v.n, 4) THEN Packed(<<210>> \o TwosComplement(v.n, 4))
         ELSE IF FitsSigned(v.n, 8) THEN Packed(<<211>> \o TwosComplement(v.n, 8))
         ELSE PackError("OverflowError")

IsSurrogate(cp) == cp >= 55296 /\ cp <= 57343

\* str.encode("utf-8") of one code point below 2^16
Utf8Char(cp) ==
    IF cp < 128 THEN <<cp>>
    ELSE IF cp < 2048 THEN <<192 + (cp \div 64), 128 + (cp % 64)>>
    ELSE <<224 + (cp \div 4096), 128 + ((cp \div 64) % 64), 128 + (cp % 64)>>

RECURSIVE Utf8(_)
Utf8(s) == IF s = <<>> THEN <<>> ELSE Utf8Char(s[1]) \o Utf8(Tail(s))

PackStr(v) ==
    IF \E i \in DOMAIN v.s : IsSurrogate(v.s[i]) THEN PackError("UnicodeEncodeError")
    ELSE IF Len(Utf8(v.s)) <= 31 THEN Packed(<<160 + Len(Utf8(v.s))>> \o Utf8(v.s))
    ELSE Packed(<<217, Len(Utf8(v.s))>> \o Utf8(v.s))

RECURSIVE packb(_), PackAll(_)
\* the concatenated encodings of a sequence of values
PackAll(items) ==
    IF items = <<>> THEN Packed(<<>>)
    ELSE LET h == packb(items[1])
             t == PackAll(Tail(items))
         IN IF h.exc # "" THEN h
            ELSE IF t.exc # "" THEN t
            ELSE Packed(h.bytes \o t.bytes)

\* msgpack.packb(obj, use_bin_type=True)
packb(v) ==
    CASE v.t = "NoneType" -> Packed(<<192>>)
      [] v.t = "bool" -> Packed(IF v.b THEN <<195>> ELSE <<194>>)
      [] v.t = "int" -> PackInt(v)
      [] v.t = "float" -> Packed(<<203>> \o v.n)
      [] v.t = "str" -> PackStr(v)
      [] v.t = "list" ->
            IF PackAll(v.items).exc # "" THEN PackAll(v.items)
            ELSE Packed(<<144 + Len(v.items)>> \o PackAll(v.items).bytes)
      [] v.t = "dict" ->
            IF PackAll(v.items).exc # "" THEN PackAll(v.items)
            ELSE Packed(<<128 + (Len(v.items) \div 2)>> \o PackAll(v.items).bytes)
      [] OTHER -> PackError("TypeError")

Unpacked(value, rest) == [ok |-> TRUE, value |-> value, values |-> <<>>, rest |-> rest]
UnpackedAll(values, rest) == [ok |-> TRUE, value |-> JNull, values |-> values, rest |-> rest]
UnpackFailed == [ok |-> FALSE, value |-> JNull, values |-> <<>>, rest |-> <<>>]

\* bytes.decode("utf-8"): the code points of a UTF-8 byte string
RECURSIVE Utf8Decode(_)
Utf8Decode(bs) ==
    IF bs = <<>> THEN [ok |-> TRUE, s |-> <<>>]
    ELSE LET n == IF bs[1] < 128 THEN 1 ELSE IF bs[1] < 224 THEN 2 ELSE 3 IN
      IF Len(bs) < n \/ (bs[1] >= 128 /\ bs[1] < 192) \/ bs[1] >= 240
      THEN [ok |-> FALSE, s |-> <<>>]
      ELSE LET cp == IF n = 1 THEN bs[1]
                     ELSE IF n = 2 THEN (bs[1] - 192) * 64 + (bs[2] - 128)
                     ELSE (bs[1] - 224) * 4096 + (bs[2] - 128) * 64 + (bs[3] - 128)
               t == Utf8Decode(SubSeq(bs, n + 1, Len(bs)))
           IN IF ~t.ok \/ IsSurrogate(cp) THEN [ok |-> FALSE, s |-> <<>>]
              ELSE [ok |-> TRUE, s |-> <<cp>> \o t.s]

\* raw=True: the bytes of a str are handed back undecoded
DecodeStr_Raw(bs, rest) == Unpacked(JBytes(bs), rest)

\* raw=False: a str is decoded from UTF-8
DecodeStr(bs, rest) ==
    IF Utf8Decode(bs).ok THEN Unpacked(JStr(Utf8Decode(bs).s), rest) ELSE UnpackFailed

\* an unsigned / a signed big-endian integer of fixed width
DecodeUnsigned(bs) == JInt(FALSE, StripZeros(bs))
DecodeSigned(bs) ==
    IF bs[1] >= 128 THEN JInt(TRUE, StripZeros(AddOne(Complement(bs))))
    ELSE JInt(FALSE, StripZeros(bs))

\* byte widths of the formats 0xcc..0xcf and 0xd0..0xd3
IntWidths == <<1, 2, 4, 8>>

\* msgpack_numpy.decode, the object_hook installed by m.patch() (line 13):
\* a map with the bytes key b"nd" (or b"complex") is an encoded array (or
\* complex number); any other map is returned as it is
object_hook(d) ==
    IF \E i \in DOMAIN d.items :
          i % 2 = 1 /\ d.items[i] \in {JBytes(<<110, 100>>),
                                       JBytes(<<99, 111, 109, 112, 108, 101, 120>>)}
    THEN JValue("ndarray", FALSE, <<>>, <<>>, d.items)
    ELSE d

\* strict_map_key: the keys of a map are str or bytes
KeysAllowed(items) ==
    \A i \in DOMAIN items : i % 2 = 1 => items[i].t \in {"str", "bytes"}

RECURSIVE Unpack(_), UnpackMany(_, _)
\* n consecutive objects
UnpackMany(bs, n) ==
    IF n = 0 THEN UnpackedAll(<<>>, bs)
    ELSE LET h == Unpack(bs) IN
      IF ~h.ok THEN UnpackFailed
      ELSE LET t == UnpackMany(h.rest, n - 1) IN
        IF ~t.ok THEN UnpackFailed
        ELSE UnpackedAll(<<h.value>> \o t.values, t.rest)

\* one object at the head of bs
Unpack(bs) ==
    IF bs = <<>> THEN UnpackFailed
    ELSE LET tag == bs[1]
             rest == Tail(bs)
             Take(n) == SubSeq(rest, 1, n)
             Drop(n) == SubSeq(rest, n + 1, Len(rest))
         IN
      CASE tag < 128 -> Unpacked(DecodeUnsigned(<<tag>>), rest)
        [] tag >= 128 /\ tag < 144 ->
              LET m == UnpackMany(rest, 2 * (tag - 128)) IN
                IF m.ok /\ KeysAllowed(m.values)
                THEN Unpacked(object_hook(JDict(m.values)), m.rest)
                ELSE UnpackFailed
        [] tag >= 144 /\ tag < 160 ->
              LET m == UnpackMany(rest, tag - 144) IN
                IF m.ok THEN Unpacked(JList(m.values), m.rest) ELSE UnpackFailed
        [] tag >= 160 /\ tag < 192 ->
              IF Len(rest) < tag - 160 THEN UnpackFailed
              ELSE DecodeStr(Take(tag - 160), Drop(tag - 160))
        [] tag = 192 -> Unpacked(JNull, rest)
        [] tag = 194 -> Unpacked(JBool(FALSE), rest)
        [] tag = 195 -> Unpacked(JBool(TRUE), rest)
        [] tag = 203 ->
              IF Len(rest) < 8 THEN UnpackFailed
              ELSE Unpacked(JFloat(Take(8)), Drop(8))
        [] tag >= 204 /\ tag < 208 ->
              IF Len(rest) < IntWidths[tag - 203] THEN UnpackFailed
              ELSE Unpacked(DecodeUnsigned(Take(IntWidths[tag - 203])),
                            Drop(IntWidths[tag - 203]))
        [] tag >= 208 /\ tag < 212 ->
              IF Len(rest) < IntWidths[tag - 207] THEN UnpackFailed
              ELSE Unpacked(DecodeSigned(Take(IntWidths[tag - 207])),
                            Drop(IntWidths[tag - 207]))
        [] tag = 217 ->
              IF rest = <<>> \/ Len(rest) < 1 + rest[1] THEN UnpackFailed
              ELSE DecodeStr(SubSeq(rest, 2, 1 + rest[1]),
                             SubSeq(rest, 2 + rest[1], Len(rest)))
        [] tag >= 224 -> Unpacked(JInt(TRUE, <<256 - tag>>), rest)
        [] OTHER -> UnpackFailed

\* msgpack.unpackb(content, raw=False): exactly one object, nothing after it;
\* every failure is a ValueError (or a subclass of it)
unpackb(bs) ==
    IF Unpack(bs).ok /\ Unpack(bs).rest = <<>>
    THEN [exc |-> "", value |-> Unpack(bs).value]
    ELSE [exc |-> "ValueError", value |-> JNull]

(***************************************************************************)
(* __main__, lines 148-171: exception class to the category it prints.     *)
(***************************************************************************)
\* Python class hierarchy of the exceptions the model raises.  The error of
\* requests' response.json() is both a RequestException and a ValueError.
IsValueError(e) == e \in {"ValueError", "JSONDecodeError"}
IsRequestException(e) == e \in {"HTTPError", "ConnectionError", "JSONDecodeError"}

\* line 153 catching FileNotFoundError only
MainHandler_NoValueError(e) ==
    IF e = "FileNotFoundError" THEN "Data"
    ELSE IF IsRequestException(e) THEN "Network"
    ELSE "Unexpected"

MainHandler(e) ==
    IF e = "FileNotFoundError" \/ IsValueError(e) THEN "Data"
    ELSE IF IsRequestException(e) THEN "Network"
    ELSE "Unexpected"

(***************************************************************************)
(* The run.                                                                *)
(***************************************************************************)
Ev(ev, arg) == [ev |-> ev, arg |-> arg]

\* the locals of run_evaluator and the counters before the first statement
InitRun ==
    /\ pc = "start"
    /\ total_sequences = 0
    /\ http_method = ""
    /\ attempt = 0
    /\ sleep_left = 0
    /\ calls = [get |-> 0, post |-> 0]
    /\ sleeps = [get |-> 0, post |-> 0]
    /\ supported = <<>>
    /\ req_fmt = NoneStr
    /\ resp_fmt = NoneStr
    /\ post_request = <<>>
    /\ response = <<>>
    /\ http_err = <<>>
    /\ response_payload = <<>>
    /\ is_success_response = FALSE
    /\ warnings = {}
    /\ log = <<>>
    /\ artifact = <<>>
    /\ metrics_calls = <<>>
    /\ exc = ""
    /\ exit_status = <<>>
    /\ stderr_tag = ""

\* no payload is followed through the codec
CodecOff == [stage |-> "off", data_dict |-> JNull, payload_bytes |-> <<>>,
             exc |-> "", decoded |-> JNull]

Init ==
    /\ config \in Configs
    /\ evaluator_input \in InputFiles
    /\ InitRun
    /\ codec = CodecOff

\* control moves on inside run_evaluator
Goto(p, l) ==
    /\ pc' = p
    /\ log' = l
    /\ UNCHANGED <<exc, exit_status, stderr_tag>>

\* an exception of class e leaves run_evaluator: __main__ lines 153-171
Raise(e, l) ==
    /\ pc' = "exited"
    /\ exc' = e
    /\ stderr_tag' = MainHandler(e)
    /\ exit_status' = <<1>>
    /\ log' = Append(l, Ev("FATAL", MainHandler(e)))

\* run_evaluator returns: __main__ lines 150-151
ReturnToMain(l) ==
    /\ pc' = "exited"
    /\ exit_status' = <<0>>
    /\ log' = Append(l, Ev("Evaluation complete.", ""))
    /\ UNCHANGED <<exc, stderr_tag>>

\* run_evaluator lines 25-37 and negotiate_formats lines 57-62, up to the
\* first HTTP call
LoadData ==
    /\ pc = "start"
    /\ IF load_and_validate_data(evaluator_input) # ""
       THEN /\ Raise(load_and_validate_data(evaluator_input), log)
            /\ UNCHANGED <<total_sequences, http_method, attempt>>
       ELSE /\ total_sequences' = Len(evaluator_input.fetched)
            /\ http_method' = "get"
            /\ attempt' = 1
            /\ Goto("request", Append(log, Ev("loaded", "")))
    /\ UNCHANGED <<codec, config, evaluator_input, sleep_left, calls, sleeps, supported, req_fmt, resp_fmt,
                   post_request, response, http_err, response_payload,
                   is_success_response, warnings, artifact, metrics_calls>>

CountCall == calls' = [calls EXCEPT ![http_method] = @ + 1]

\* _make_request_with_retry lines 30-32: the call answers with a 2xx status
RequestReturns ==
    /\ pc = "request"
    /\ attempt <= config.MAX_RETRIES
    /\ CountCall
    /\ \E r \in (IF http_method = "get" THEN FormatsResponses ELSE PredictResponses) :
         IF http_method = "get"
         THEN /\ supported' = <<r>>
              /\ Goto("negotiate", Append(log, Ev("2xx", "get")))
              /\ UNCHANGED response
         ELSE /\ response' = <<r>>
              /\ Goto("got_response", Append(log, Ev("2xx", "post")))
              /\ UNCHANGED supported
    /\ UNCHANGED <<codec, config, evaluator_input, total_sequences, http_method, attempt, sleep_left, sleeps,
                   req_fmt, resp_fmt, post_request, http_err, response_payload,
                   is_success_response, warnings, artifact, metrics_calls>>

\* the exceptions requests.request / raise_for_status raise at line 30-31:
\* HTTPError for a 4xx/5xx answer, ConnectionError for a connection-level fault
RequestExceptions == {"HTTPError", "ConnectionError"}

\* the isinstance test of line 36 left out: every RequestException is retried
IsHTTPError_Omitted(e) == FALSE

\* line 36: isinstance(e, requests.exceptions.HTTPError)
IsHTTPError(e) == e = "HTTPError"

\* line 40 written with <= : one wait too many, and the loop runs out
MoreAttempts_OffByOne(a, cfg) == a <= cfg.MAX_RETRIES

\* line 40: attempt < config.MAX_RETRIES
MoreAttempts(a, cfg) == a < cfg.MAX_RETRIES

\* line 28 as a loop that does not advance its counter
NextAttempt_Stuck(a) == a

\* line 28: the next value of range(1, MAX_RETRIES + 1)
NextAttempt(a) == a + 1

\* lines 42-47 with a wait that grows with the attempt number
WaitSeconds_Backoff(a, cfg) == a * cfg.RETRY_INTERVAL

\* lines 42-47: for i in range(config.RETRY_INTERVAL): time.sleep(1)
WaitSeconds(a, cfg) == cfg.RETRY_INTERVAL

\* what went over the wire: a 4xx/5xx answer is recorded, a connection fault is not
WireLog(e) == IF e = "HTTPError" THEN Append(log, Ev("4xx/5xx", http_method)) ELSE log

\* lines 30-31, 34-53: the call raises a RequestException.  An HTTPError is
\* re-raised at once and caught at run_evaluator line 52; a connection-level
\* error is retried after the wait, or re-raised on the last attempt.
RequestRaises ==
    /\ pc = "request"
    /\ attempt <= config.MAX_RETRIES
    /\ CountCall
    /\ \E e \in RequestExceptions :
         IF IsHTTPError(e)
         THEN /\ \E r \in ErrorResponses : http_err' = <<r>>
              /\ Goto("except_http", WireLog(e))
              /\ UNCHANGED <<attempt, sleep_left>>
         ELSE /\ UNCHANGED http_err
              /\ IF MoreAttempts(attempt, config)
                 THEN IF WaitSeconds(attempt, config) > 0
                      THEN /\ sleep_left' = WaitSeconds(attempt, config)
                           /\ Goto("sleeping", WireLog(e))
                           /\ UNCHANGED attempt
                      ELSE /\ attempt' = NextAttempt(attempt)
                           /\ Goto("request", WireLog(e))
                           /\ UNCHANGED sleep_left
                 ELSE /\ Raise(e, WireLog(e))
                      /\ UNCHANGED <<attempt, sleep_left>>
    /\ UNCHANGED <<codec, config, evaluator_input, total_sequences, http_method, sleeps, supported, req_fmt,
                   resp_fmt, post_request, response, response_payload,
                   is_success_response, warnings, artifact, metrics_calls>>

\* lines 42-47: one time.sleep(1); after the last one the loop continues
Sleep ==
    /\ pc = "sleeping"
    /\ sleep_left > 0
    /\ sleeps' = [sleeps EXCEPT ![http_method] = @ + 1]
    /\ sleep_left' = sleep_left - 1
    /\ IF sleep_left = 1
       THEN attempt' = NextAttempt(attempt) /\ Goto("request", log)
       ELSE UNCHANGED attempt /\ Goto("sleeping", log)
    /\ UNCHANGED <<codec, config, evaluator_input, total_sequences, http_method, calls, supported, req_fmt,
                   resp_fmt, post_request, response, http_err, response_payload,
                   is_success_response, warnings, artifact, metrics_calls>>

\* line 28 with the range exhausted and nothing returned or raised: the
\* function falls off its end and returns None; the caller then takes an
\* attribute of None (line 63, or line 126 after line 46)
RetryLoopEnds ==
    /\ pc = "request"
    /\ attempt > config.MAX_RETRIES
    /\ is_success_response' = (http_method = "post")
    /\ Raise("AttributeError", Append(log, Ev("returned None", http_method)))
    /\ UNCHANGED <<codec, config, evaluator_input, total_sequences, http_method, attempt, sleep_left, calls,
                   sleeps, supported, req_fmt, resp_fmt, post_request, response,
                   http_err, response_payload, warnings, artifact, metrics_calls>>

\* line 63 accepting any body: an unparsable one reads as an empty object
JsonFails_Never(body) == FALSE

\* line 63: response.json() raises on a body that is not JSON
JsonFails(body) == ~body.parsable

\* negotiate_formats lines 63-96 on the 2xx answer of GET /formats
NegotiateFormats ==
    /\ pc = "negotiate"
    /\ LET body == supported[1].body IN
         IF JsonFails(body)
         THEN /\ Raise("JSONDecodeError", log)
              /\ UNCHANGED <<req_fmt, resp_fmt, warnings>>
         ELSE /\ req_fmt' = Str(SelectFormat(config.REQUEST_FORMAT, pred_fmts(body, RequestKey)))
              /\ resp_fmt' = Str(SelectFormat(config.RESPONSE_FORMAT, pred_fmts(body, ResponseKey)))
              /\ warnings' = warnings \cup NegotiationWarnings(body, config)
              /\ Goto("negotiated", Append(log, Ev("negotiated", "")))
    /\ UNCHANGED <<codec, config, evaluator_input, total_sequences, http_method, attempt, sleep_left, calls,
                   sleeps, supported, post_request, response, http_err,
                   response_payload, is_success_response, artifact, metrics_calls>>

\* lines 105-106 with the two formats exchanged
Headers_Swapped(negotiated_req_fmt, negotiated_resp_fmt) ==
    [content_type |-> negotiated_resp_fmt, accept |-> negotiated_req_fmt]

\* get_predictions lines 105-106: the headers of the POST
Headers(negotiated_req_fmt, negotiated_resp_fmt) ==
    [content_type |-> negotiated_req_fmt, accept |-> negotiated_resp_fmt]

\* run_evaluator line 43 and get_predictions lines 101-118, up to the first
\* HTTP call; the locals of negotiate_formats are gone
GetPredictions ==
    /\ pc = "negotiated"
    /\ post_request' = << [headers |-> Headers(req_fmt.s, resp_fmt.s),
                           body_enc |-> SerializeRequest(req_fmt.s)] >>
    /\ supported' = <<>>
    /\ http_method' = "post"
    /\ attempt' = 1
    /\ Goto("request", Append(log, Ev("posting", "")))
    /\ UNCHANGED <<codec, config, evaluator_input, total_sequences, sleep_left, calls, sleeps, req_fmt,
                   resp_fmt, response, http_err, response_payload,
                   is_success_response, warnings, artifact, metrics_calls>>

\* a decoded JSON null / msgpack nil is Python None
AsLocal(value) == IF value = PyNone THEN <<>> ELSE <<value>>

\* run_evaluator lines 46-50 on the 2xx answer of POST /predict
DeserializeSuccess ==
    /\ pc = "got_response"
    /\ is_success_response' = TRUE
    /\ warnings' = warnings \cup DecodeWarnings(response[1], resp_fmt)
    /\ LET d == deserialize_response(response[1], resp_fmt)
           l == Append(Append(log, Ev("200 OK", "")), Ev("deserialize", d.decoder))
       IN IF d.raised
          THEN /\ Raise("ValueError", l)
               /\ UNCHANGED response_payload
          ELSE /\ response_payload' = AsLocal(d.value)
               /\ Goto("save", Append(l, Ev("decoded", "")))
    /\ UNCHANGED <<codec, config, evaluator_input, total_sequences, http_method, attempt, sleep_left, calls,
                   sleeps, supported, req_fmt, resp_fmt, post_request, response,
                   http_err, artifact, metrics_calls>>

\* line 58
fmt_for_error(negotiated) == IF Truthy(negotiated) THEN negotiated ELSE Str(JSON)

\* run_evaluator lines 52-72: the handler of HTTPError
ExceptHTTPError ==
    /\ pc = "except_http"
    /\ is_success_response' = FALSE
    /\ warnings' = warnings \cup DecodeWarnings(http_err[1], fmt_for_error(resp_fmt))
    /\ LET d == deserialize_response(http_err[1], fmt_for_error(resp_fmt))
           l == Append(log, Ev("deserialize", d.decoder))
       IN IF d.raised
          THEN /\ response_payload' = <<ErrorResponsePlaceholder(http_err[1])>>
               /\ Goto("save", Append(l, Ev("placeholder", "")))
          ELSE /\ response_payload' = AsLocal(d.value)
               /\ Goto("save", Append(l, Ev("decoded", "")))
    /\ UNCHANGED <<codec, config, evaluator_input, total_sequences, http_method, attempt, sleep_left, calls,
                   sleeps, supported, req_fmt, resp_fmt, post_request, response,
                   http_err, artifact, metrics_calls>>

\* lines 78-86 left out: None is handed on as it is
PayloadToSave_NoFallback(payload) == IF payload = <<>> THEN PyNone ELSE payload[1]

\* line 78-86
PayloadToSave(payload) == IF payload = <<>> THEN NoResponsePlaceholder ELSE payload[1]

\* line 109 with the test deserialize_response uses at line 141
SaveAsMsgpack_AnyMsgpack(resp) == StrIn(MSGPACK, response_fmt_actual(resp))

\* line 109: the file format chosen for the artifact
SaveAsMsgpack(resp) == response_fmt_actual(resp) = MSGPACK_NUMPY

File(ext, content, complete) == [ext |-> ext, content |-> content, complete |-> complete]

\* lines 118 and 126 without the return: the run goes on to the metrics
WriteFailed_NoReturn(l) == Goto("saved", Append(l, Ev("FATAL: Could not save predictions", "")))

\* lines 116-118 and 124-126: IOError is caught, "FATAL: Could not save ..."
\* is printed and run_evaluator returns to __main__
WriteFailed(l) == ReturnToMain(Append(l, Ev("FATAL: Could not save predictions", "")))

\* run_evaluator lines 78-126: placeholder, count check, write of the artifact.
\* io_ok is whether the file system accepts the write.
SavePayload ==
    /\ pc = "save"
    /\ response_payload' = <<PayloadToSave(response_payload)>>
    /\ LET payload == PayloadToSave(response_payload) IN
         IF payload.kind # "dict"
         THEN \* line 89: .get on a list
              /\ Raise("AttributeError", log)
              /\ UNCHANGED <<warnings, artifact>>
         ELSE
           /\ warnings' = warnings \cup CountWarnings(payload, total_sequences)
           /\ IF response = <<>>
              THEN \* line 108: the local `response` was never assigned
                   /\ Raise("UnboundLocalError", log)
                   /\ UNCHANGED artifact
              ELSE \E io_ok \in BOOLEAN :
                   IF ~io_ok
                   THEN /\ WriteFailed(log)
                        /\ UNCHANGED artifact
                   ELSE IF SaveAsMsgpack(response[1])
                   THEN /\ artifact' = <<File("msgpack", payload, TRUE)>>
                        /\ Goto("saved", Append(log, Ev("saved", "msgpack")))
                   ELSE IF payload.ndarray
                   THEN \* json.dump meets a numpy array after opening the file
                        /\ artifact' = <<File("json", payload, FALSE)>>
                        /\ Raise("TypeError", log)
                   ELSE /\ artifact' = <<File("json", payload, TRUE)>>
                        /\ Goto("saved", Append(log, Ev("saved", "json")))
    /\ UNCHANGED <<codec, config, evaluator_input, total_sequences, http_method, attempt, sleep_left, calls,
                   sleeps, supported, req_fmt, resp_fmt, post_request, response,
                   http_err, is_success_response, metrics_calls>>

\* run_evaluator lines 128-132 and calculate_and_save_metrics
Metrics ==
    /\ pc = "saved"
    /\ IF is_success_response
       THEN /\ metrics_calls' = Append(metrics_calls,
                  [payload |-> response_payload[1],
                   recv_fmt |-> response_fmt_actual(response[1]),
                   is_msgpack_numpy |-> is_msgpack_numpy(response_fmt_actual(response[1]))])
            /\ IF MetricsRaises(response_payload[1], total_sequences)
               THEN Raise("KeyError", Append(log, Ev("metrics", "")))
               ELSE ReturnToMain(Append(log, Ev("metrics", "")))
       ELSE /\ ReturnToMain(Append(log, Ev("Skipping metrics calculation", "")))
            /\ UNCHANGED metrics_calls
    /\ UNCHANGED <<codec, config, evaluator_input, total_sequences, http_method, attempt, sleep_left, calls,
                   sleeps, supported, req_fmt, resp_fmt, post_request, response,
                   http_err, response_payload, is_success_response, warnings, artifact>>

Next ==
    \/ LoadData
    \/ RequestReturns
    \/ RequestRaises
    \/ Sleep
    \/ RetryLoopEnds
    \/ NegotiateFormats
    \/ GetPredictions
    \/ DeserializeSuccess
    \/ ExceptHTTPError
    \/ SavePayload
    \/ Metrics

Spec == Init /\ [][Next]_vars

\* The run is one thread of control: while a statement remains to be executed
\* it is executed (every HTTP call returns or raises, every sleep ends).
FairSpec == Spec /\ WF_vars(Next)

(***************************************************************************)
(* The codec on its own: a payload is packed as get_predictions packs the  *)
(* request for the negotiated request format application/msgpack, and the  *)
(* bytes are handed to deserialize_response as the content of a response   *)
(* that declares application/msgpack.                                      *)
(***************************************************************************)
MaxUnsigned64 == <<255, 255, 255, 255, 255, 255, 255, 255>>

IntValues ==
    { JInt(FALSE, m) : m \in { <<>>, <<1>>, <<127>>, <<128>>, <<255>>, <<1, 0>>,
                              <<255, 255>>, <<1, 0, 0>>, <<1, 0, 0, 0, 0>>,
                              MaxUnsigned64, <<1>> \o Zeros(8) } }
    \cup
    { JInt(TRUE, m) : m \in { <<1>>, <<32>>, <<33>>, <<128>>, <<129>>, <<128, 0>>,
                             <<128, 1>>, <<1, 0, 0, 0, 0>>, <<128>> \o Zeros(7),
                             <<128>> \o Zeros(6) \o <<1>> } }

\* 1.5 and -2.0
FloatValues == { JFloat(<<63, 248, 0, 0, 0, 0, 0, 0>>), JFloat(<<192, 0, 0, 0, 0, 0, 0, 0>>) }

ACGT == <<65, 67, 71, 84>>
SEQUENCES == <<115, 101, 113, 117, 101, 110, 99, 101, 115>>

\* "", "a", "e-acute", the euro sign, "ACGT", 32 times "a", a lone surrogate
StrValues ==
    { JStr(s) : s \in { <<>>, <<97>>, <<233>>, <<8364>>, ACGT,
                        [i \in 1..32 |-> 97], <<55296>> } }

Atoms == {JNull, JBool(FALSE), JBool(TRUE)} \cup IntValues \cup FloatValues \cup StrValues

\* the request payload of this evaluator: {"sequences": {key: sequence}}
RequestPayloads ==
    { JDict(<<JStr(SEQUENCES), JDict(<<JStr(<<97>>), JStr(ACGT)>>)>>),
      JDict(<<JStr(SEQUENCES), JDict(<<JStr(<<97>>), JStr(ACGT), JStr(<<98>>), JStr(ACGT)>>)>>) }

JsonValues ==
    Atoms
    \cup { JList(<<>>), JDict(<<>>) }
    \cup { JList(<<a>>) : a \in Atoms }
    \cup { JDict(<<JStr(<<97>>), a>>) : a \in Atoms }
    \cup { JList(<<JBool(TRUE), JList(<<a>>), JDict(<<JStr(<<233>>), a>>)>>) : a \in IntValues }
    \cup RequestPayloads

InitCodec ==
    /\ config = [MAX_RETRIES |-> 1, RETRY_INTERVAL |-> 0,
                 REQUEST_FORMAT |-> Lower(ShippedFormats[1]),
                 RESPONSE_FORMAT |-> Lower(ShippedFormats[2])]
    /\ evaluator_input = [exists |-> TRUE, has_sequence_coordinates |-> TRUE,
                          fetched |-> <<seq_len>>]
    /\ InitRun
    /\ codec \in { [CodecOff EXCEPT !.stage = "data", !.data_dict = v] : v \in JsonValues }

\* get_predictions lines 108-112 with negotiated_req_fmt = application/msgpack
PackRequest ==
    /\ codec.stage = "data"
    /\ SerializeRequest(MSGPACK) = "msgpack"
    /\ codec' = IF packb(codec.data_dict).exc # ""
                THEN [codec EXCEPT !.stage = "raised", !.exc = packb(codec.data_dict).exc]
                ELSE [codec EXCEPT !.stage = "packed",
                                   !.payload_bytes = packb(codec.data_dict).bytes]
    /\ UNCHANGED run_vars

\* a response whose content is the given bytes
ResponseWith(content_type, bytes) ==
    [status_code |-> 200, content_type |-> [present |-> TRUE, value |-> content_type],
     body |-> Body("msgpack", PyNone, "", 0), content |-> bytes]

\* deserialize_response lines 126-151 on a response that declares
\* application/msgpack and carries the packed bytes
UnpackResponse ==
    /\ codec.stage = "packed"
    /\ LET resp == ResponseWith(MSGPACK, codec.payload_bytes) IN
         /\ Decoder(resp) = "msgpack"
         /\ codec' = IF unpackb(resp.content).exc # ""
                     THEN [codec EXCEPT !.stage = "raised", !.exc = unpackb(resp.content).exc]
                     ELSE [codec EXCEPT !.stage = "decoded",
                                        !.decoded = unpackb(resp.content).value]
    /\ UNCHANGED run_vars

NextCodec ==
    \/ PackRequest
    \/ UnpackResponse

SpecCodec == InitCodec /\ [][NextCodec]_vars

(***************************************************************************)
(* Properties.                                                             *)
(***************************************************************************)
Methods == {"get", "post"}

\* the server answered the request of method m with a 2xx status
Answered2xx(m) == \E i \in DOMAIN log : log[i] = Ev("2xx", m)
\* the server answered the request of method m with a 4xx/5xx status
AnsweredError(m) == \E i \in DOMAIN log : log[i] = Ev("4xx/5xx", m)
Exited == pc = "exited"

\* C1: with MAX_RETRIES = M >= 1, no more than M HTTP calls are ever issued
\* for a request, and when all M calls of a request have failed at connection
\* level (the server never answered) the run has left the retry loop with the
\* connection error raised to the caller; conversely the connection error is
\* raised only after exactly M calls.
C1_ExactlyMCallsThenRaise ==
    config.MAX_RETRIES >= 1 =>
        /\ \A m \in Methods :
             /\ calls[m] <= config.MAX_RETRIES
             /\ (calls[m] = config.MAX_RETRIES /\ ~Answered2xx(m) /\ ~AnsweredError(m))
                    => (Exited /\ exc = "ConnectionError" /\ http_method = m)
        /\ exc = "ConnectionError"
              => /\ calls[http_method] = config.MAX_RETRIES
                 /\ ~Answered2xx(http_method) /\ ~AnsweredError(http_method)

\* C1 witness: three calls of POST /predict failed and the error was raised
C1_Witness ==
    /\ Exited /\ exc = "ConnectionError" /\ http_method = "post"
    /\ config.MAX_RETRIES = 3 /\ calls["post"] = 3

\* C2: once the server has answered a request with a 4xx/5xx status, no
\* further HTTP call of that request is issued and no retry wait happens; the
\* step in which the answer arrives hands the HTTPError with that response to
\* the caller's handler.
C2_NoRetryOnHTTPError ==
    [][ \A m \in Methods :
          /\ AnsweredError(m) => (calls'[m] = calls[m] /\ sleeps'[m] = sleeps[m])
          /\ (~AnsweredError(m) /\ AnsweredError(m)')
                => /\ pc' = "except_http"
                   /\ http_err' # <<>>
                   /\ calls'[m] = calls[m] + 1
                   /\ sleeps' = sleeps
                   /\ attempt' = attempt ]_vars

\* C2 witness: a 4xx/5xx answer on the second of three attempts ended the loop
C2_Witness ==
    /\ Exited /\ AnsweredError("post") /\ http_err # <<>>
    /\ attempt = 2 /\ config.MAX_RETRIES = 3 /\ calls["post"] = 2

\* the body carried by the HTTPError decodes with the decoder its header selects
ErrorBodyDecodes ==
    http_err[1].body.enc =
        (IF StrIn(MSGPACK, Lower(http_err[1].content_type.value)) THEN "msgpack" ELSE "json")

\* C3: when POST /predict answered 4xx/5xx with a body that decodes, the run
\* ends with is_success_response false, an artifact holding exactly the
\* decoded error body, no call of calculate_and_save_metrics, and exit status 0.
C3_ErrorBodyPersisted ==
    (Exited /\ AnsweredError("post") /\ ErrorBodyDecodes)
        => /\ ~is_success_response
           /\ artifact # <<>>
           /\ artifact[1].content = http_err[1].body.value
           /\ metrics_calls = <<>>
           /\ exit_status = <<0>>

\* C4: when POST /predict answered 4xx/5xx with a body that does not decode,
\* the run does not end with an uncaught exception and an artifact holding
\* the 'UnknownPredictor_ErrorResponse' placeholder has been written.
C4_PlaceholderPersisted ==
    (Exited /\ AnsweredError("post") /\ ~ErrorBodyDecodes)
        => /\ exc = ""
           /\ artifact # <<>>
           /\ artifact[1].content = ErrorResponsePlaceholder(http_err[1])

\* the entries the predictor declared for one direction, compared without
\* regard to case, together with application/json, which every predictor is
\* taken to support
SupportedSet(key) ==
    { Lower(DictGetList(supported[1].body, key)[i]) :
        i \in DOMAIN DictGetList(supported[1].body, key) } \cup {JSON}

Negotiated == pc = "negotiated"

RequestFallbackWarning == Warning("REQUEST_FORMAT not supported", config.REQUEST_FORMAT, <<>>, 0, 0)
ResponseFallbackWarning == Warning("RESPONSE_FORMAT not supported", config.RESPONSE_FORMAT, <<>>, 0, 0)

\* C5: selection rule, independently per direction: if the preferred format
\* equals, without regard to case, an entry of the predictor's supported list
\* (the declared entries and the implicit application/json), the negotiated
\* format is the preferred one and no fallback warning is printed; otherwise
\* the negotiated format is application/json and a warning naming the
\* rejected preference is printed.
C5_SelectionRule ==
    Negotiated =>
        /\ IF Lower(config.REQUEST_FORMAT) \in SupportedSet(RequestKey)
           THEN req_fmt = Str(config.REQUEST_FORMAT) /\ RequestFallbackWarning \notin warnings
           ELSE req_fmt = Str(JSON) /\ RequestFallbackWarning \in warnings
        /\ IF Lower(config.RESPONSE_FORMAT) \in SupportedSet(ResponseKey)
           THEN resp_fmt = Str(config.RESPONSE_FORMAT) /\ ResponseFallbackWarning \notin warnings
           ELSE resp_fmt = Str(JSON) /\ ResponseFallbackWarning \in warnings

\* C5 witness: the request preference is matched by an entry spelled in
\* another case, the response preference is rejected with a warning
C5_Witness ==
    /\ Negotiated
    /\ config.REQUEST_FORMAT = MSGPACK
    /\ DictGetList(supported[1].body, RequestKey) = <<MSGPACK_MIXED>>
    /\ req_fmt = Str(MSGPACK)
    /\ config.RESPONSE_FORMAT = MSGPACK_NUMPY
    /\ resp_fmt = Str(JSON)
    /\ ResponseFallbackWarning \in warnings

\* C6: whatever the two declared lists are (empty, absent, without
\* application/json), each negotiated format is a member of the declared list
\* augmented with application/json, and a preference of application/json is
\* selected without a fallback warning.
C6_JsonAlwaysSupported ==
    Negotiated =>
        /\ req_fmt.s \in SupportedSet(RequestKey)
        /\ resp_fmt.s \in SupportedSet(ResponseKey)
        /\ config.REQUEST_FORMAT = JSON
              => (req_fmt = Str(JSON) /\ RequestFallbackWarning \notin warnings)
        /\ config.RESPONSE_FORMAT = JSON
              => (resp_fmt = Str(JSON) /\ ResponseFallbackWarning \notin warnings)

\* C6 witness: the request list is absent, the response list lacks
\* application/json, and the preferences are application/json and a format
\* the predictor did not declare
C6_Witness ==
    /\ Negotiated
    /\ RequestKey \notin supported[1].body.keys
    /\ DictGetList(supported[1].body, ResponseKey) = <<MSGPACK_MIXED>>
    /\ config.REQUEST_FORMAT = JSON /\ req_fmt = Str(JSON)
    /\ config.RESPONSE_FORMAT = MSGPACK_NUMPY /\ resp_fmt = Str(JSON)

\* load_and_validate_data raised: nothing was loaded and no request was made
LoadFailed == Exited /\ total_sequences = 0

\* all MAX_RETRIES calls of the request of method m failed at connection level
RetriesExhausted(m) ==
    /\ config.MAX_RETRIES >= 1
    /\ calls[m] = config.MAX_RETRIES
    /\ ~Answered2xx(m) /\ ~AnsweredError(m)

\* the 2xx answer of POST /predict does not decode with the decoder its
\* Content-Type header selects
Undecodable2xx ==
    /\ response # <<>>
    /\ response[1].body.enc #
         (IF StrIn(MSGPACK, Lower(response[1].content_type.value)) THEN "msgpack" ELSE "json")

DataErrors == {"FileNotFoundError", "ValueError", "JSONDecodeError"}

\* C7: the exit status is determined by the terminal outcome: 0 exactly when
\* run_evaluator returned; a data error (input missing or invalid, undecodable
\* body) exits 1 tagged Data; exhausted retries exit 1 tagged Network with no
\* artifact written and no metrics call; any other exception exits 1 through
\* the generic handler.
C7_ExitStatusByOutcome ==
    Exited =>
        /\ exit_status \in {<<0>>, <<1>>}
        /\ (exit_status = <<0>>) <=> (exc = "")
        /\ (LoadFailed \/ Undecodable2xx \/ exc \in DataErrors)
              => (exit_status = <<1>> /\ stderr_tag = "Data" /\ exc \in DataErrors)
        /\ (\E m \in Methods : RetriesExhausted(m))
              => /\ exit_status = <<1>> /\ stderr_tag = "Network"
                 /\ exc = "ConnectionError"
                 /\ artifact = <<>> /\ metrics_calls = <<>>
        /\ (exc \notin DataErrors \cup {"", "ConnectionError"})
              => (exit_status = <<1>> /\ stderr_tag = "Unexpected")

\* C7 witness: the retries of POST /predict ran out and the run exited tagged Network
C7_Witness ==
    /\ Exited /\ RetriesExhausted("post") /\ config.MAX_RETRIES >= 2
    /\ exit_status = <<1>> /\ stderr_tag = "Network"

\* C8: when the 2xx body of POST /predict does not decode, ValueError leaves
\* run_evaluator: no payload or placeholder is set, nothing is saved, the
\* metrics are not called, and the process exits 1 tagged Data.
C8_UndecodableSuccessBodyFatal ==
    Undecodable2xx =>
        /\ pc \in {"got_response", "exited"}
        /\ response_payload = <<>>
        /\ artifact = <<>>
        /\ metrics_calls = <<>>
        /\ Exited => (exc = "ValueError" /\ exit_status = <<1>> /\ stderr_tag = "Data")

\* C8 witness: a 200 answer declared application/msgpack-numpy whose bytes
\* are not msgpack ended the run
C8_Witness ==
    /\ Exited /\ Undecodable2xx
    /\ response[1].content_type.value = MSGPACK_NUMPY
    /\ response[1].body.enc = "garbage"
    /\ exc = "ValueError"

Happened(e) == \E i \in DOMAIN log : log[i] = e

\* C9: when the write of the artifact fails with an I/O error, the metrics
\* are never called and the process exits non-zero without reporting
\* "Evaluation complete.".
C9_WriteFailureFatal ==
    (Exited /\ Happened(Ev("FATAL: Could not save predictions", "")))
        => /\ metrics_calls = <<>>
           /\ exit_status # <<0>>
           /\ ~Happened(Ev("Evaluation complete.", ""))

\* C10: calculate_and_save_metrics is called at most once, and only after,
\* in this order, the negotiation succeeded, POST /predict answered 2xx, the
\* body was decoded and the artifact was written; never when POST /predict
\* answered 4xx/5xx.
C10_MetricsOnlyAfterSuccess ==
    /\ Len(metrics_calls) <= 1
    /\ Cardinality({ i \in DOMAIN log : log[i] = Ev("metrics", "") }) = Len(metrics_calls)
    /\ metrics_calls # <<>> =>
         /\ \E i \in DOMAIN log :
              /\ log[i] = Ev("negotiated", "")
              /\ \E j \in (i + 1)..Len(log) :
                   /\ log[j] = Ev("2xx", "post")
                   /\ \E k \in (j + 1)..Len(log) :
                        /\ log[k] = Ev("decoded", "")
                        /\ \E l \in (k + 1)..Len(log) :
                             /\ log[l].ev = "saved"
                             /\ \E m \in (l + 1)..Len(log) : log[m] = Ev("metrics", "")
         /\ is_success_response
         /\ artifact # <<>> /\ artifact[1].complete
    /\ AnsweredError("post") => metrics_calls = <<>>

\* C10 witness: a run that called the metrics once and exited 0
C10_Witness ==
    /\ Exited /\ Len(metrics_calls) = 1 /\ exit_status = <<0>>
    /\ artifact # <<>>


\* the run got past the input but the negotiation did not succeed: GET
\* /formats was answered 4xx/5xx, or its 2xx body is unparsable, or the run
\* ended before any format pair was returned
UnparsableFormats == supported # <<>> /\ ~supported[1].body.parsable

NegotiationFailed ==
    /\ Happened(Ev("loaded", ""))
    /\ \/ AnsweredError("get")
       \/ UnparsableFormats
       \/ (Exited /\ ~Happened(Ev("negotiated", "")))

MediaType(h) ==
    LET semis == { i \in DOMAIN h : h[i] = ";" } IN
      IF semis = {} THEN Lower(h)
      ELSE Lower(SubSeq(h, 1, (CHOOSE i \in semis : \A j \in semis : i <= j) - 1))

\* the response handed to deserialize_response in this run
DecodedResponse == IF response # <<>> THEN response[1] ELSE http_err[1]

\* the header of that response declares one of the two binary types
DeclaresBinary ==
    /\ DecodedResponse.content_type.present
    /\ MediaType(DecodedResponse.content_type.value) \in {MSGPACK, MSGPACK_NUMPY}

Deserialized == \E i \in DOMAIN log : log[i].ev = "deserialize"

KnownFormats == {JSON, MSGPACK, MSGPACK_NUMPY}

\* C13: after deserialize_response has run on the answer of POST /predict,
\* if the Content-Type header is present and names a format of
\* {application/json, application/msgpack, application/msgpack-numpy} other
\* than the negotiated response format, the format-mismatch warning naming
\* the two formats has been printed.
C13_MismatchAlwaysWarned ==
    (Deserialized /\ response # <<>> /\ response[1].content_type.present) =>
        LET actual == Lower(response[1].content_type.value) IN
          (actual \in KnownFormats /\ resp_fmt.s \in KnownFormats /\ actual # resp_fmt.s)
             => Warning("format mismatch", actual, resp_fmt.s, 0, 0) \in warnings


\* every integer of the value lies in -2^63 .. 2^64-1 and no string holds a
\* lone surrogate
RECURSIVE MsgpackRepresentable(_)
MsgpackRepresentable(v) ==
    /\ v.t = "int" => (IF v.b THEN FitsSigned(v.n, 8) ELSE Len(v.n) <= 8)
    /\ v.t = "str" => \A i \in DOMAIN v.s : ~IsSurrogate(v.s[i])
    /\ \A i \in DOMAIN v.items : MsgpackRepresentable(v.items[i])

\* C14 as stated: for every JSON-representable payload, packing it for the
\* request format application/msgpack does not raise, and unpacking the bytes
\* under the response header application/msgpack yields the payload.
C14_RoundTripAnyJson ==
    codec.stage # "off" =>
        /\ codec.stage # "raised"
        /\ codec.stage = "decoded" => codec.decoded = codec.data_dict

\* C14 amended: for every JSON-representable payload whose integers lie in
\* -2^63 .. 2^64-1 and whose strings encode as UTF-8, packing it for the
\* request format application/msgpack does not raise, and unpacking the bytes
\* under the response header application/msgpack yields the payload.
C14_RoundTripWithinRange ==
    (codec.stage # "off" /\ MsgpackRepresentable(codec.data_dict)) =>
        /\ codec.stage # "raised"
        /\ codec.stage = "packed" => unpackb(codec.payload_bytes).exc = ""
        /\ codec.stage = "decoded" => codec.decoded = codec.data_dict

\* C14 witness: a list holding -2^63 in a list and in a dict with a
\* non-ASCII key came back equal
C14_Witness ==
    /\ codec.stage = "decoded"
    /\ codec.data_dict = JList(<<JBool(TRUE), JList(<<JInt(TRUE, <<128>> \o Zeros(7))>>),
                                 JDict(<<JStr(<<233>>), JInt(TRUE, <<128>> \o Zeros(7))>>)>>)
    /\ codec.decoded = codec.data_dict


Saves == { i \in DOMAIN log : log[i].ev = "saved" }

\* the Content-Type value of the answer of POST /predict, lower-cased, is
\* exactly application/msgpack-numpy
ActualIsMsgpackNumpy ==
    /\ response # <<>>
    /\ response[1].content_type.present
    /\ Lower(response[1].content_type.value) = MSGPACK_NUMPY

C16_PostCarriesNegotiatedPair ==
    [][ /\ (post_request = <<>> /\ post_request' # <<>>)
              => /\ pc = "negotiated"
                 /\ post_request'[1].headers.content_type = req_fmt.s
                 /\ post_request'[1].headers.accept = resp_fmt.s
        /\ ~req_fmt.is_none => (req_fmt' = req_fmt /\ resp_fmt' = resp_fmt)
        /\ post_request # <<>> => post_request' = post_request
        /\ calls'["post"] # calls["post"]
              => /\ post_request # <<>>
                 /\ post_request[1].headers = [content_type |-> req_fmt.s, accept |-> resp_fmt.s]
      ]_vars

\* C16 witness: JSON was negotiated for the request (fallback) and
\* application/msgpack-numpy for the response, and the POST went out twice
\* with these headers
C16_Witness ==
    /\ calls["post"] = 2
    /\ req_fmt = Str(JSON) /\ resp_fmt = Str(MSGPACK_NUMPY)
    /\ post_request # <<>>
    /\ post_request[1].headers = [content_type |-> JSON, accept |-> MSGPACK_NUMPY]


CountWarned == { w \in warnings : w.kind = "prediction count" }

WriteFailure == Happened(Ev("FATAL: Could not save predictions", ""))

\* the loop of lines 96-107 has run: the run is past it or left at a later line
CountChecked ==
    \/ pc = "saved"
    \/ Exited /\ (Saves # {} \/ WriteFailure \/ exc \in {"UnboundLocalError", "TypeError"})

\* C17: once the count loop has run, a warning has been printed for task i
\* (numbered from 1) with its prediction count if and only if that count
\* differs from the number of submitted sequences; no such warning is printed
\* otherwise or earlier.  A mismatch does not end the run: unless the write
\* itself fails, the artifact is written in full and, the answer being a
\* 2xx, calculate_and_save_metrics is called.
C17_CountMismatchWarnsOnly ==
    /\ CountWarned # {} => CountChecked
    /\ CountChecked =>
          LET tasks == response_payload[1].prediction_tasks IN
            /\ \A i \in DOMAIN tasks :
                  (tasks[i] # total_sequences)
                     <=> (Warning("prediction count", <<>>, <<>>, i, tasks[i]) \in warnings)
            /\ \A w \in CountWarned :
                  w.task \in DOMAIN tasks /\ w.n_preds = tasks[w.task]
    /\ (CountWarned # {} /\ Exited /\ ~WriteFailure /\ exc # "TypeError")
          => /\ artifact # <<>> /\ artifact[1].complete
             /\ is_success_response
             /\ Len(metrics_calls) = 1

\* C17 witness: a predictor that declares JSON only, msgpack preferred and
\* JSON negotiated in both directions, one prediction returned for two
\* submitted sequences: the warning was printed, the file written and the
\* metrics called (where the missing prediction then raises KeyError)
C17_Witness ==
    /\ Exited /\ total_sequences = 2 /\ exc = "KeyError"
    /\ config.REQUEST_FORMAT = MSGPACK
    /\ req_fmt = Str(JSON) /\ resp_fmt = Str(JSON)
    /\ Warning("prediction count", <<>>, <<>>, 1, 1) \in warnings
    /\ artifact # <<>> /\ artifact[1].complete /\ artifact[1].ext = "json"
    /\ Len(metrics_calls) = 1


\* the input file exists but lacks "sequence_coordinates", or a sequence
\* fetched for one of its coordinates has not the expected length
InvalidInput ==
    /\ evaluator_input.exists
    /\ \/ ~evaluator_input.has_sequence_coordinates
       \/ \E k \in DOMAIN evaluator_input.fetched : evaluator_input.fetched[k] # seq_len

\* C18: with an input that lacks "sequence_coordinates" or for which a
\* fetched sequence has a length other than seq_len, no HTTP call is ever
\* issued or prepared, and the first step of the run ends it: ValueError
\* reaches __main__, which prints the Data message and exits 1.
C18_InvalidInputIsDataError ==
    InvalidInput =>
        /\ calls = [get |-> 0, post |-> 0]
        /\ post_request = <<>> /\ supported = <<>> /\ response = <<>>
        /\ pc \in {"start", "exited"}
        /\ Exited => /\ exc = "ValueError"
                     /\ exit_status = <<1>>
                     /\ stderr_tag = "Data"
                     /\ log = <<Ev("FATAL", "Data")>>

\* C18 witness: the key is there, the second of two fetched sequences is one
\* base short, and the run has exited 1 with the Data message
C18_Witness ==
    /\ Exited /\ exc = "ValueError" /\ stderr_tag = "Data" /\ exit_status = <<1>>
    /\ evaluator_input.has_sequence_coordinates
    /\ evaluator_input.fetched = <<seq_len, seq_len - 1>>
    /\ calls = [get |-> 0, post |-> 0]


\* deserialization is over and the run is past line 86 (the substitution of
\* the fallback payload)
PastFallback ==
    /\ Happened(Ev("decoded", "")) \/ Happened(Ev("placeholder", ""))
    /\ pc # "save"

\* C19: past line 86 response_payload is never None: it is the
\* UnknownPredictor_ErrorResponse placeholder when the error body did not
\* decode, the UnknownPredictor_NoResponse placeholder when the body decoded
\* to None, and the decoded body otherwise; a file that is written holds it.
C19_PayloadNeverNull ==
    PastFallback =>
        /\ response_payload # <<>>
        /\ response_payload[1] # PyNone
        /\ response_payload[1] =
              (IF Happened(Ev("placeholder", "")) THEN ErrorResponsePlaceholder(http_err[1])
               ELSE IF DecodedResponse.body.value = PyNone THEN NoResponsePlaceholder
               ELSE DecodedResponse.body.value)
        /\ artifact # <<>> => artifact[1].content = response_payload[1]

\* C19 witness: a 2xx body that is JSON null was replaced by the "no
\* response" placeholder and written
C19_Witness ==
    /\ pc = "saved"
    /\ response[1].body = Body("json", PyNone, "null", 4)
    /\ response_payload = <<NoResponsePlaceholder>>
    /\ artifact # <<>> /\ artifact[1].content = NoResponsePlaceholder


\* C20: in every call of calculate_and_save_metrics the NaN-handling path is
\* taken if and only if the content type passed to it is
\* application/msgpack-numpy; application/json, application/msgpack, a JSON
\* type with parameters and the empty string take the standard path.
C20_NanPathOnlyForMsgpackNumpy ==
    \A i \in DOMAIN metrics_calls :
        metrics_calls[i].is_msgpack_numpy <=> (metrics_calls[i].recv_fmt = MSGPACK_NUMPY)


\* the number of iterations of range(1, MAX_RETRIES + 1)
Iterations == IF config.MAX_RETRIES > 0 THEN config.MAX_RETRIES ELSE 0

\* C21: every run terminates: at no time have more than MAX_RETRIES calls of
\* GET /formats or of POST /predict been issued (none when MAX_RETRIES is not
\* positive), and every run eventually reaches a terminal outcome, the
\* process having exited with status 0 or 1; once exited it stays so.
C21_RunTerminates ==
    /\ [](\A m \in Methods : calls[m] <= Iterations)
    /\ <>(Exited /\ exit_status \in {<<0>>, <<1>>})
    /\ [][Exited => Exited']_vars

\* C21 witness: both requests needed all three attempts, with waits, and the
\* run reached its end with status 0
C21_Witness ==
    /\ Exited /\ exit_status = <<0>>
    /\ config.MAX_RETRIES = 3 /\ config.RETRY_INTERVAL = 2
    /\ calls = [get |-> 3, post |-> 3]
    /\ sleeps = [get |-> 4, post |-> 4]


\* the request of method m is between two attempts of its retry loop
BetweenAttempts(m) == http_method = m /\ pc = "request"
\* the request of method m is in the wait that follows a failed attempt
InWait(m) == http_method = m /\ pc = "sleeping"

\* C22: the wait between attempts is constant.  For each request, RETRY_INTERVAL
\* one-second sleeps have occurred per failed attempt that another attempt
\* follows: during the wait after the k-th call, k * RETRY_INTERVAL less the
\* seconds still to sleep; before the next call, k * RETRY_INTERVAL; and once
\* the loop is left after k calls (by a response, a 4xx/5xx answer or the last
\* failure), (k - 1) * RETRY_INTERVAL, so that nothing was slept after the
\* last call.  A request whose MAX_RETRIES calls all failed has slept
\* (MAX_RETRIES - 1) * RETRY_INTERVAL seconds.
C22_ConstantWait ==
    \A m \in Methods :
        /\ IF InWait(m)
           THEN sleeps[m] = calls[m] * config.RETRY_INTERVAL - sleep_left
           ELSE IF BetweenAttempts(m)
           THEN sleeps[m] = calls[m] * config.RETRY_INTERVAL
           ELSE IF calls[m] = 0
           THEN sleeps[m] = 0
           ELSE sleeps[m] = (calls[m] - 1) * config.RETRY_INTERVAL
        /\ (RetriesExhausted(m) /\ ~InWait(m) /\ ~BetweenAttempts(m))
               => sleeps[m] = (config.MAX_RETRIES - 1) * config.RETRY_INTERVAL

\* C22 witness: GET /formats was answered at once, all three POST /predict
\* attempts failed at connection level, and two waits of two seconds occurred
C22_Witness ==
    /\ Exited /\ RetriesExhausted("post")
    /\ config.MAX_RETRIES = 3 /\ config.RETRY_INTERVAL = 2
    /\ calls = [get |-> 1, post |-> 3]
    /\ sleeps = [get |-> 0, post |-> 4]


\* the body encoding a Content-Type declares: JSON text for application/json,
\* msgpack bytes for application/msgpack and application/msgpack-numpy
DeclaredEncoding(content_type) == IF content_type = JSON THEN "json" ELSE "msgpack"

\* C23: the body posted by get_predictions is encoded in the format its
\* Content-Type header declares, for every request format negotiation returns:
\* JSON text under application/json, msgpack bytes under a binary type.
C23_BodyEncodedAsDeclared ==
    post_request # <<>>
        => post_request[1].body_enc
              = DeclaredEncoding(post_request[1].headers.content_type)


\* the two payloads run_evaluator makes up itself (lines 65-73 and 82-87)
SyntheticNames == {"UnknownPredictor_NoResponse", "UnknownPredictor_ErrorResponse"}

\* C24: whenever calculate_and_save_metrics is invoked, the payload it
\* receives is the one decoded from the body of the 2xx /predict response,
\* and never one of the two synthetic placeholder payloads, whatever the 2xx
\* body was (a body that decodes to null included).
C24_ScoringGetsDecodedPayload ==
    \A i \in DOMAIN metrics_calls :
        /\ response # <<>>
        /\ ~DecodeFails(response[1])
        /\ metrics_calls[i].payload = response[1].body.value
        /\ metrics_calls[i].payload.predictor_name \notin SyntheticNames


\* C25: for every configured MAX_RETRIES, zero and negative values included,
\* _make_request_with_retry has two outcomes only, a 2xx response obtained
\* from a call it issued or an exception: it never returns to its caller
\* without a response, and a response it returns comes from a call it made.
C25_ResponseOrException ==
    \A m \in Methods :
        /\ ~Happened(Ev("returned None", m))
        /\ Answered2xx(m) => calls[m] >= 1


\* deserialize_response recognizes the numeric-array binary variant in the
\* header of the /predict response: the value contains application/msgpack-numpy
DecodedAsMsgpackNumpy ==
    /\ response # <<>>
    /\ StrIn(MSGPACK_NUMPY, response_fmt_actual(response[1]))

\* C26: decoding and persistence classify the response Content-Type alike:
\* for every header value in which deserialize_response recognizes
\* application/msgpack-numpy (a value with a trailing parameter included),
\* the file run_evaluator writes is the binary .msgpack one, never text JSON.
C26_NumpyResponseSavedAsMsgpack ==
    (DecodedAsMsgpackNumpy /\ artifact # <<>>) => artifact[1].ext = "msgpack"

====
